---- MODULE Spec2Model ----
(***************************************************************************)
(* Model of the example connectors of fivetran_custom_sdk:                 *)
(*   examples/multiple_code_files   (TimestampSerializer and its update),  *)
(*   examples/local                 (cursor over SOURCE_DATA),             *)
(*   examples/key_based_replication (last_synced over a customers table),  *)
(*   examples/records_with_no_created_at_timestamp (composite key).        *)
(* Strings are sequences of one-character strings, so that parsing and     *)
(* formatting are computed character by character.                         *)
(***************************************************************************)
EXTENDS Integers, Sequences, FiniteSets, TLC

VARIABLES
    ts_pc,      \* TimestampSerializer.serialize: not called, returned, raised
    ts_arg,     \* argument of the last TimestampSerializer.serialize call
    ts_res,     \* its outcome: a returned string or a raised exception
    m_pc,       \* multiple_code_files update: position of the generator
    m_ops,      \* multiple_code_files update: operations yielded so far
    m_err,      \* multiple_code_files update: exception raised, or None
    l_state,    \* local: state mapping persisted by the host
    l_in,       \* local: state mapping handed to the running update call
    l_pc,       \* local: position of the generator
    l_ops,      \* local: operations yielded by the running call
    l_err,      \* local: exception raised by the running call, or None
    l_hist,     \* local: the finished calls, in order
    l_source,   \* local: the module-level list SOURCE_DATA
    k_source,   \* key_based_replication: rows of the customers source table
    k_writes,   \* key_based_replication: writes made to the source table
    k_persist,  \* key_based_replication: state persisted by the host
    k_state,    \* key_based_replication: the state dict handed to update
    k_in,       \* key_based_replication: copy of the dict as handed in
    k_pc,       \* key_based_replication: position of the generator
    k_result,   \* key_based_replication: rows fetched by the query
    k_i,        \* key_based_replication: rows of result already yielded
    k_last,     \* key_based_replication: local variable last_synced
    k_ops,      \* key_based_replication: operations yielded by this call
    k_syncs,    \* key_based_replication: calls of update started
    k_prev,     \* key_based_replication: how the call before ended
    u_source,   \* no_created_at: the records the source holds
    u_pc,       \* no_created_at: position of the generator
    u_ops,      \* no_created_at: operations yielded by the running call
    u_dest,     \* no_created_at: destination table user
    u_syncs     \* no_created_at: calls of update finished

ts_vars == <<ts_pc, ts_arg, ts_res, m_pc, m_ops, m_err>>
l_vars == <<l_state, l_in, l_pc, l_ops, l_err, l_hist, l_source>>
k_vars == <<k_source, k_writes, k_persist, k_state, k_in, k_pc, k_result, k_i, k_last,
            k_ops, k_syncs, k_prev>>
u_vars == <<u_source, u_pc, u_ops, u_dest, u_syncs>>
vars == <<ts_vars, l_vars, k_vars, u_vars>>

\* no exception
None == [type |-> "None"]

(***************************************************************************)
(* Characters and numbers                                                  *)
(***************************************************************************)
Digits == {"0", "1", "2", "3", "4", "5", "6", "7", "8", "9"}
Digits19 == Digits \ {"0"}
\* the characters the regular expression class \s matches
Whitespace == {" ", "\t", "\n", "\r", "\f"}

DigitVal(c) ==
    CASE c = "0" -> 0 [] c = "1" -> 1 [] c = "2" -> 2 [] c = "3" -> 3
      [] c = "4" -> 4 [] c = "5" -> 5 [] c = "6" -> 6 [] c = "7" -> 7
      [] c = "8" -> 8 [] c = "9" -> 9

DigitChar(n) ==
    CASE n = 0 -> "0" [] n = 1 -> "1" [] n = 2 -> "2" [] n = 3 -> "3"
      [] n = 4 -> "4" [] n = 5 -> "5" [] n = 6 -> "6" [] n = 7 -> "7"
      [] n = 8 -> "8" [] n = 9 -> "9"

\* int(): the value of a sequence of digits (leading blanks are stripped)
RECURSIVE ToInt(_)
ToInt(s) ==
    IF s = <<>> THEN 0
    ELSE IF s[Len(s)] \in Digits
         THEN 10 * ToInt(SubSeq(s, 1, Len(s) - 1)) + DigitVal(s[Len(s)])
         ELSE ToInt(SubSeq(s, 1, Len(s) - 1))

\* "%0<w>d" % n
RECURSIVE Pad(_, _)
Pad(n, w) ==
    IF w <= 1 /\ n < 10 THEN <<DigitChar(n)>>
    ELSE Pad(n \div 10, w - 1) \o <<DigitChar(n % 10)>>

(***************************************************************************)
(* datetime.strptime, as _strptime implements it: the format is compiled   *)
(* to a regular expression, one group of ordered alternatives per          *)
(* directive, white space in the format to \s+, any other character to     *)
(* itself; the expression is matched at the start of the string with       *)
(* backtracking, the match must cover the whole string, and the fields     *)
(* must make a datetime.                                                   *)
(***************************************************************************)
ValueError == [ok |-> FALSE, exc |-> [type |-> "ValueError"]]

\* the alternatives of a directive, in the order the expression lists them;
\* an alternative is a sequence of character classes
Alternatives(tok) ==
    CASE tok = "%Y" -> << <<Digits, Digits, Digits, Digits>> >>
      [] tok = "%m" -> << <<{"1"}, {"0", "1", "2"}>>, <<{"0"}, Digits19>>,
                          <<Digits19>> >>
      [] tok = "%d" -> << <<{"3"}, {"0", "1"}>>, <<{"1", "2"}, Digits>>,
                          <<{"0"}, Digits19>>, <<Digits19>>,
                          <<{" "}, Digits19>> >>
      [] tok = "%H" -> << <<{"2"}, {"0", "1", "2", "3"}>>,
                          <<{"0", "1"}, Digits>>, <<Digits>> >>
      [] tok = "%M" -> << <<{"0", "1", "2", "3", "4", "5"}, Digits>>,
                          <<Digits>> >>
      [] tok = "%S" -> << <<{"6"}, {"0", "1"}>>,
                          <<{"0", "1", "2", "3", "4", "5"}, Digits>>,
                          <<Digits>> >>
      [] OTHER -> << <<{tok}>> >>

IsDirective(tok) == tok \in {"%Y", "%m", "%d", "%H", "%M", "%S"}

\* does the alternative alt match s at position pos
AltMatches(s, pos, alt) ==
    /\ pos + Len(alt) - 1 <= Len(s)
    /\ \A j \in 1..Len(alt) : s[pos + j - 1] \in alt[j]

\* length of the run of white space of s starting at pos
RECURSIVE SpaceRun(_, _)
SpaceRun(s, pos) ==
    IF pos <= Len(s) /\ s[pos] \in Whitespace THEN 1 + SpaceRun(s, pos + 1)
    ELSE 0

NoMatch == [matched |-> FALSE]

\* the first match, in the order a backtracking matcher finds them, of the
\* tokens fmt[k..] against s from pos; found holds the groups matched so far
RECURSIVE MatchFrom(_, _, _, _, _), TryAlts(_, _, _, _, _, _),
          TrySpaces(_, _, _, _, _, _)
MatchFrom(s, pos, fmt, k, found) ==
    IF k > Len(fmt) THEN [matched |-> TRUE, end |-> pos - 1, found |-> found]
    ELSE IF fmt[k] = " " THEN TrySpaces(s, pos, fmt, k, found, SpaceRun(s, pos))
    ELSE TryAlts(s, pos, fmt, k, found, 1)

TryAlts(s, pos, fmt, k, found, a) ==
    LET alts == Alternatives(fmt[k]) IN
    IF a > Len(alts) THEN NoMatch
    ELSE IF AltMatches(s, pos, alts[a])
         THEN LET len == Len(alts[a])
                  f2 == IF IsDirective(fmt[k])
                        THEN Append(found, SubSeq(s, pos, pos + len - 1))
                        ELSE found
                  r == MatchFrom(s, pos + len, fmt, k + 1, f2)
              IN IF r.matched THEN r ELSE TryAlts(s, pos, fmt, k, found, a + 1)
         ELSE TryAlts(s, pos, fmt, k, found, a + 1)

\* \s+ is greedy: the longest run first, then shorter ones
TrySpaces(s, pos, fmt, k, found, n) ==
    IF n < 1 THEN NoMatch
    ELSE LET r == MatchFrom(s, pos + n, fmt, k + 1, found)
         IN IF r.matched THEN r ELSE TrySpaces(s, pos, fmt, k, found, n - 1)

IsLeap(y) == (y % 4 = 0) /\ ((y % 100 # 0) \/ (y % 400 = 0))

DaysInMonth(y, m) ==
    IF m = 2 THEN (IF IsLeap(y) THEN 29 ELSE 28)
    ELSE IF m \in {4, 6, 9, 11} THEN 30 ELSE 31

\* the range checks of the datetime constructor
ValidDateTime(dt) ==
    /\ dt.year \in 1..9999
    /\ dt.month \in 1..12
    /\ dt.day \in 1..DaysInMonth(dt.year, dt.month)
    /\ dt.hour \in 0..23
    /\ dt.minute \in 0..59
    /\ dt.second \in 0..59

\* fmt is a sequence of tokens in the order Y m d H M S
strptime(s, fmt) ==
    LET r == MatchFrom(s, 1, fmt, 1, <<>>) IN
    IF ~r.matched THEN ValueError
    ELSE IF r.end # Len(s) THEN ValueError
    ELSE LET dt == [year |-> ToInt(r.found[1]), month |-> ToInt(r.found[2]),
                    day |-> ToInt(r.found[3]), hour |-> ToInt(r.found[4]),
                    minute |-> ToInt(r.found[5]), second |-> ToInt(r.found[6])]
         IN IF ValidDateTime(dt) THEN [ok |-> TRUE, value |-> dt] ELSE ValueError

\* datetime.isoformat() of a datetime without microseconds and tzinfo
isoformat(dt) ==
    Pad(dt.year, 4) \o <<"-">> \o Pad(dt.month, 2) \o <<"-">> \o Pad(dt.day, 2)
        \o <<"T">> \o Pad(dt.hour, 2) \o <<":">> \o Pad(dt.minute, 2)
        \o <<":">> \o Pad(dt.second, 2)

(***************************************************************************)
(* TimestampSerializer                                                     *)
(***************************************************************************)
\* the first format with day and month exchanged
TIMESTAMP_FORMATS_DayFirst ==
    << <<"%Y", "/", "%d", "/", "%m", " ", "%H", ":", "%M", ":", "%S">>,
       <<"%Y", "-", "%m", "-", "%d", " ", "%H", ":", "%M", ":", "%S">> >>

TIMESTAMP_FORMATS ==
    << <<"%Y", "/", "%m", "/", "%d", " ", "%H", ":", "%M", ":", "%S">>,
       <<"%Y", "-", "%m", "-", "%d", " ", "%H", ":", "%M", ":", "%S">> >>

\* the message without the string
NotRecognized_NoInput(timestamp_str) ==
    [type |-> "ValueError", msg |-> "Timestamp format not recognized: ",
     arg |-> <<>>]

NotRecognized(timestamp_str) ==
    [type |-> "ValueError", msg |-> "Timestamp format not recognized: ",
     arg |-> timestamp_str]

\* the loop of parse_timestamp from format number i on: the format that
\* parsed and the datetime, or the exception raised after the last format
RECURSIVE parse_from(_, _)
parse_from(timestamp_str, i) ==
    IF i > Len(TIMESTAMP_FORMATS)
    THEN [ok |-> FALSE, exc |-> NotRecognized(timestamp_str)]
    ELSE LET r == strptime(timestamp_str, TIMESTAMP_FORMATS[i]) IN
         IF r.ok THEN [ok |-> TRUE, fmt |-> i, value |-> r.value]
         ELSE parse_from(timestamp_str, i + 1)

parse_timestamp(timestamp_str) == parse_from(timestamp_str, 1)

serialize(timestamp) ==
    LET parsed_timestamp == parse_timestamp(timestamp) IN
    IF ~parsed_timestamp.ok THEN parsed_timestamp
    ELSE [ok |-> TRUE, fmt |-> parsed_timestamp.fmt,
          value |-> isoformat(parsed_timestamp.value)]

(***************************************************************************)
(* Input strings of serialize: every composition of the listed spellings   *)
(* of the six fields, separators, blanks and tails, plus a few strings of  *)
(* another shape                                                           *)
(***************************************************************************)
YearTexts == {<<"2", "0", "2", "4">>, <<"2", "0", "2", "3">>,
              <<"0", "0", "0", "0">>}
DateSeps == {"/", "-"}
MonthTexts == {<<"0", "9">>, <<"9">>, <<"1", "3">>, <<"0", "2">>}
DayTexts == {<<"2", "4">>, <<"4">>, <<"2", "9">>, <<"3", "2">>}
BlankTexts == {<<" ">>, <<" ", " ">>}
HourTexts == {<<"1", "4">>, <<"2", "4">>}
MinuteTexts == {<<"3", "0">>, <<"6", "0">>}
SecondTexts == {<<"4", "5">>, <<"5">>, <<"6", "0">>}
TailTexts == {<<>>, <<"Z">>}

ComposedInputs ==
    { y \o <<s1>> \o m \o <<s2>> \o d \o b \o h \o <<":">> \o mi \o <<":">> \o sec \o t :
        y \in YearTexts, s1 \in DateSeps, m \in MonthTexts, s2 \in DateSeps,
        d \in DayTexts, b \in BlankTexts, h \in HourTexts, mi \in MinuteTexts,
        sec \in SecondTexts, t \in TailTexts }

Slash_2024_09_24_14_30_45 ==
    <<"2", "0", "2", "4", "/", "0", "9", "/", "2", "4", " ",
      "1", "4", ":", "3", "0", ":", "4", "5">>
Dash_2024_09_24_10_30_45 ==
    <<"2", "0", "2", "4", "-", "0", "9", "-", "2", "4", " ",
      "1", "0", ":", "3", "0", ":", "4", "5">>
Dash_2024_13_01_10_30_45 ==
    <<"2", "0", "2", "4", "-", "1", "3", "-", "0", "1", " ",
      "1", "0", ":", "3", "0", ":", "4", "5">>
Iso_2024_09_24_14_30_45 ==
    <<"2", "0", "2", "4", "-", "0", "9", "-", "2", "4", "T",
      "1", "4", ":", "3", "0", ":", "4", "5">>
Iso_2024_09_24_10_30_45 ==
    <<"2", "0", "2", "4", "-", "0", "9", "-", "2", "4", "T",
      "1", "0", ":", "3", "0", ":", "4", "5">>

OtherInputs ==
    { <<>>,
      Slash_2024_09_24_14_30_45,
      Dash_2024_09_24_10_30_45,
      <<"n", "o", "t", "-", "a", "-", "d", "a", "t", "e">>,
      <<"1", "3", "/", "4", "0", "/", "2", "0", "2", "4">>,
      Dash_2024_13_01_10_30_45,
      Iso_2024_09_24_14_30_45,
      \* a year of three digits, and a year below 1000
      <<"9", "9", "9", "/", "0", "9", "/", "2", "4", " ",
        "1", "4", ":", "3", "0", ":", "4", "5">>,
      <<"0", "9", "9", "9", "/", "0", "9", "/", "2", "4", " ",
        "1", "4", ":", "3", "0", ":", "4", "5">>,
      \* a day written with a leading blank, a tab between date and time
      <<"2", "0", "2", "4", "-", "0", "9", "-", " ", "4", " ",
        "7", ":", "0", "5", ":", "0", "9">>,
      <<"2", "0", "2", "4", "/", "1", "2", "/", "3", "1", "\t",
        "2", "3", ":", "5", "9", ":", "5", "9">>,
      \* a leading blank, and the date alone
      <<" ", "2", "0", "2", "4", "/", "0", "9", "/", "2", "4", " ",
        "1", "4", ":", "3", "0", ":", "4", "5">>,
      <<"2", "0", "2", "4", "/", "0", "9", "/", "2", "4">>,
      \* 30 February, and 29 February of a century year that is no leap year
      <<"2", "0", "2", "4", "/", "0", "2", "/", "3", "0", " ",
        "1", "4", ":", "3", "0", ":", "4", "5">>,
      <<"1", "9", "0", "0", "-", "0", "2", "-", "2", "9", " ",
        "0", "0", ":", "0", "0", ":", "0", "0">> }

Inputs == ComposedInputs \cup OtherInputs

(***************************************************************************)
(* examples/multiple_code_files/connector.py                               *)
(***************************************************************************)
RECURSIVE Blanks(_)
Blanks(n) == IF n = 0 THEN <<>> ELSE <<" ">> \o Blanks(n - 1)

\* the text of a triple-quoted literal of update: indent is the column of
\* the braces, the two members are four columns further in
JsonText(indent, name, timestamp) ==
    <<"\n">> \o Blanks(indent) \o <<"{", "\n">>
      \o Blanks(indent + 4) \o <<"\"", "n", "a", "m", "e", "\"", ":", " ", "\"">>
      \o name \o <<"\"", ",", "\n">>
      \o Blanks(indent + 4)
      \o <<"\"", "t", "i", "m", "e", "s", "t", "a", "m", "p", "\"", ":", " ", "\"">>
      \o timestamp \o <<"\"", "\n">>
      \o Blanks(indent) \o <<"}", "\n">> \o Blanks(indent)

Event1 == <<"E", "v", "e", "n", "t", "1">>
Event2 == <<"E", "v", "e", "n", "t", "2">>

input_json_1 == JsonText(8, Event1, Slash_2024_09_24_14_30_45)
input_json_2 == JsonText(12, Event2, Dash_2024_09_24_10_30_45)

Upsert(table, data) == [op |-> "upsert", table |-> table, data |-> data]
Checkpoint(state) == [op |-> "checkpoint", state |-> state]

TsInit ==
    /\ ts_pc = "idle"
    /\ ts_arg = <<>>
    /\ ts_res = [ok |-> FALSE, exc |-> None]
    /\ m_pc = "start"
    /\ m_ops = <<>>
    /\ m_err = None

\* a caller passes the string timestamp to TimestampSerializer.serialize;
\* the function keeps nothing between calls, so a run makes one call
Serialize(timestamp) ==
    /\ ts_pc = "idle"
    /\ ts_arg' = timestamp
    /\ ts_res' = serialize(timestamp)
    /\ ts_pc' = IF ts_res'.ok THEN "returned" ELSE "raised"
    /\ UNCHANGED <<m_pc, m_ops, m_err>>

\* the host takes the next operation of update: the generator runs to its
\* next yield, to its end, or to the exception that serialize raises
UpdateNext ==
    /\ m_pc \in {"start", "yield1", "yield2"}
    /\ LET input_json == IF m_pc = "start" THEN input_json_1 ELSE input_json_2
           r == serialize(input_json)
       IN IF m_pc = "yield2"
          THEN /\ m_pc' = "done"
               /\ UNCHANGED <<m_ops, m_err>>
          ELSE IF r.ok
               THEN /\ m_ops' = Append(m_ops, Upsert("event", r.value))
                    /\ m_pc' = IF m_pc = "start" THEN "yield1" ELSE "yield2"
                    /\ m_err' = m_err
               ELSE /\ m_err' = r.exc
                    /\ m_pc' = "raised"
                    /\ m_ops' = m_ops
    /\ UNCHANGED <<ts_pc, ts_arg, ts_res>>

TsNext ==
    \/ \E timestamp \in Inputs : Serialize(timestamp)
    \/ UpdateNext

(***************************************************************************)
(* State mappings: a dict is the set of its <<key, value>> items           *)
(***************************************************************************)
Has(dict, key) == \E item \in dict : item[1] = key
Get(dict, key) == (CHOOSE item \in dict : item[1] = key)[2]
Put(dict, key, value) ==
    {item \in dict : item[1] # key} \cup {<<key, value>>}

\* what the host does with an operation it takes from update: a checkpoint
\* replaces the state it keeps for the next call
HostState(persisted, operation) ==
    IF operation.op = "checkpoint" THEN operation.state ELSE persisted

(***************************************************************************)
(* examples/local/connector.py                                             *)
(***************************************************************************)
SOURCE_DATA ==
    << [id |-> 10, message |-> "Hello world"],
       [id |-> 20, message |-> "Hello again"],
       [id |-> 30, message |-> "Good bye"] >>

IndexError == [type |-> "IndexError"]

\* an index past the end gives the last item
ListItem_Clamped(list, index) ==
    IF 0 <= index /\ index < Len(list)
    THEN [ok |-> TRUE, value |-> list[index + 1]]
    ELSE IF -Len(list) <= index /\ index < 0
    THEN [ok |-> TRUE, value |-> list[Len(list) + index + 1]]
    ELSE IF index >= Len(list) THEN [ok |-> TRUE, value |-> list[Len(list)]]
    ELSE [ok |-> FALSE, exc |-> IndexError]

\* list[index] of Python: a negative index counts from the end, an index
\* outside -len..len-1 raises IndexError
ListItem(list, index) ==
    IF 0 <= index /\ index < Len(list)
    THEN [ok |-> TRUE, value |-> list[index + 1]]
    ELSE IF -Len(list) <= index /\ index < 0
    THEN [ok |-> TRUE, value |-> list[Len(list) + index + 1]]
    ELSE [ok |-> FALSE, exc |-> IndexError]

MaxSyncs == 5
MaxCursor == 4
MinCursor == 0 - MaxCursor

\* the states a first call can be handed: empty, or a cursor, alone or next
\* to a key the connector does not use
LocalStates ==
    {{}} \cup {{<<"cursor", n>>} : n \in MinCursor..MaxCursor}
         \cup {{<<"cursor", n>>, <<"page", 7>>} : n \in MinCursor..MaxCursor}
         \cup {{<<"page", 7>>}}

LocalInit ==
    /\ l_state \in LocalStates
    /\ l_in = {}
    /\ l_pc = "idle"
    /\ l_ops = <<>>
    /\ l_err = None
    /\ l_hist = <<>>
    /\ l_source = SOURCE_DATA

\* an absent cursor starts at the second row
LocalCursor_FromOne(state) ==
    IF Has(state, "cursor") THEN Get(state, "cursor") ELSE 1

\* line 47
LocalCursor(state) == IF Has(state, "cursor") THEN Get(state, "cursor") ELSE 0

\* the cursor is not advanced
NewState_Same(cursor) == {<<"cursor", cursor>>}

\* lines 57-59
NewState(cursor) == {<<"cursor", cursor + 1>>}

\* the host calls update with the state it keeps; no line of a generator
\* runs before its first operation is asked for
LocalStart ==
    /\ l_pc \in {"idle", "done", "raised"}
    /\ Len(l_hist) < MaxSyncs
    /\ l_in' = l_state
    /\ l_pc' = "created"
    /\ l_ops' = <<>>
    /\ l_err' = None
    /\ UNCHANGED <<l_state, l_hist, l_source>>

\* first operation asked for: lines 47-54, up to the yield of the upsert,
\* or to the exception of line 51
LocalUpsert ==
    /\ l_pc = "created"
    /\ LET cursor == LocalCursor(l_in)
           row == ListItem(l_source, cursor)
       IN IF ~row.ok
          THEN /\ l_err' = IndexError
               /\ l_pc' = "raised"
               /\ l_hist' = Append(l_hist, [in |-> l_in, ops |-> l_ops,
                                            err |-> IndexError])
               /\ UNCHANGED <<l_ops, l_state>>
          ELSE LET operation == Upsert("hello_world", row.value) IN
               /\ l_ops' = Append(l_ops, operation)
               /\ l_state' = HostState(l_state, operation)
               /\ l_pc' = "upsert"
               /\ UNCHANGED <<l_err, l_hist>>
    /\ UNCHANGED <<l_in, l_source>>

\* the cursor is assigned in the dict handed in, which is the checkpoint
LocalCheckpoint_InPlace ==
    /\ l_pc = "upsert"
    /\ LET cursor == LocalCursor(l_in)
           new_state == Put(l_in, "cursor", cursor + 1)
           operation == Checkpoint(new_state)
       IN /\ l_ops' = Append(l_ops, operation)
          /\ l_state' = HostState(l_state, operation)
          /\ l_in' = new_state
    /\ l_pc' = "checkpoint"
    /\ UNCHANGED <<l_err, l_hist, l_source>>

\* second operation asked for: lines 57-63, the yield of the checkpoint
LocalCheckpoint ==
    /\ l_pc = "upsert"
    /\ LET cursor == LocalCursor(l_in)
           new_state == NewState(cursor)
           operation == Checkpoint(new_state)
       IN /\ l_ops' = Append(l_ops, operation)
          /\ l_state' = HostState(l_state, operation)
    /\ l_pc' = "checkpoint"
    /\ UNCHANGED <<l_in, l_err, l_hist, l_source>>

\* third operation asked for: the generator returns
LocalReturn ==
    /\ l_pc = "checkpoint"
    /\ l_pc' = "done"
    /\ l_hist' = Append(l_hist, [in |-> l_in, ops |-> l_ops, err |-> None])
    /\ UNCHANGED <<l_state, l_in, l_ops, l_err, l_source>>

LocalNext ==
    \/ LocalStart
    \/ LocalUpsert
    \/ LocalCheckpoint
    \/ LocalReturn

(***************************************************************************)
(* examples/key_based_replication/connector.py                             *)
(* A timestamp of the source is a record of its fields down to the         *)
(* millisecond; the session time zone of the database is taken to be UTC,  *)
(* as in the tables the file documents.                                    *)
(***************************************************************************)
DateTime(y, mo, d, h, mi, sec, ms) ==
    [year |-> y, month |-> mo, day |-> d, hour |-> h, minute |-> mi,
     second |-> sec, ms |-> ms]

AsTuple(dt) ==
    <<dt.year, dt.month, dt.day, dt.hour, dt.minute, dt.second, dt.ms>>

\* a < b for tuples of numbers of one length, compared from the left
RECURSIVE TupleLess(_, _)
TupleLess(a, b) ==
    IF a = <<>> THEN FALSE
    ELSE IF Head(a) # Head(b) THEN Head(a) < Head(b)
    ELSE TupleLess(Tail(a), Tail(b))

Later(a, b) == TupleLess(AsTuple(b), AsTuple(a))

\* strftime("%Y-%m-%dT%H:%M:%SZ"): the fraction of the second is dropped
dt2str(incoming) ==
    Pad(incoming.year, 4) \o <<"-">> \o Pad(incoming.month, 2) \o <<"-">>
        \o Pad(incoming.day, 2) \o <<"T">> \o Pad(incoming.hour, 2) \o <<":">>
        \o Pad(incoming.minute, 2) \o <<":">> \o Pad(incoming.second, 2)
        \o <<"Z">>

\* the cast of the quoted literal of the query to a timestamp
CastTimestamp(text) ==
    DateTime(ToInt(SubSeq(text, 1, 4)), ToInt(SubSeq(text, 6, 7)),
             ToInt(SubSeq(text, 9, 10)), ToInt(SubSeq(text, 12, 13)),
             ToInt(SubSeq(text, 15, 16)), ToInt(SubSeq(text, 18, 19)), 0)

\* a default one month later
DefaultLastSynced_Feb == <<"2", "0", "2", "4", "-", "0", "2", "-", "0", "1", "T", "0", "0", ":", "0", "0", ":", "0", "0", "Z">>

DefaultLastSynced == <<"2", "0", "2", "4", "-", "0", "1", "-", "0", "1", "T", "0", "0", ":", "0", "0", ":", "0", "0", "Z">>

\* the source table the file documents
Customers ==
    << [customer_id |-> 1, first_name |-> "Mathew", last_name |-> "Perry",
        email |-> "mathew@fivetran.com",
        updated_at |-> DateTime(2023, 12, 31, 23, 59, 59, 0)],
       [customer_id |-> 2, first_name |-> "Joe", last_name |-> "Doe",
        email |-> "joe@fivetran.com",
        updated_at |-> DateTime(2024, 1, 31, 23, 4, 39, 0)],
       [customer_id |-> 3, first_name |-> "Jake", last_name |-> "Anderson",
        email |-> "jake@fivetran.com",
        updated_at |-> DateTime(2023, 11, 1, 23, 59, 59, 0)],
       [customer_id |-> 4, first_name |-> "John", last_name |-> "William",
        email |-> "john@fivetran.com",
        updated_at |-> DateTime(2024, 2, 14, 22, 59, 59, 0)],
       [customer_id |-> 5, first_name |-> "Ricky", last_name |-> "Roma",
        email |-> "ricky@fivetran.com",
        updated_at |-> DateTime(2024, 3, 16, 16, 40, 29, 0)] >>

\* the values a write to the source gives updated_at: a later time, a time
\* with a fraction of a second, a time another row has, the default itself
WriteTimes ==
    { DateTime(2024, 4, 1, 8, 0, 0, 0),
      DateTime(2024, 3, 16, 16, 40, 29, 500),
      DateTime(2024, 2, 14, 22, 59, 59, 0),
      DateTime(2024, 1, 1, 0, 0, 0, 0) }

MaxWrites == 2
MaxKSyncs == 3

\* the states a first call can be handed: empty, a last_synced the
\* connector checkpointed before, or a key the connector does not use
KeyStates ==
    { {},
      {<<"last_synced", dt2str(Customers[2].updated_at)>>},
      {<<"last_synced", dt2str(Customers[5].updated_at)>>},
      {<<"region", <<"e", "u">> >>} }

\* SELECT ... WHERE updated_at > 'last_synced': the rows that qualify
Selected(source, last_synced) ==
    {source[i] : i \in {j \in 1..Len(source) :
                          Later(source[j].updated_at, CastTimestamp(last_synced))}}

\* ORDER BY updated_at DESC
RECURSIVE OrderedByDescending(_)
OrderedByDescending(rows) ==
    IF rows = {} THEN {<<>>}
    ELSE UNION { { <<first>> \o rest : rest \in OrderedByDescending(rows \ {first}) } :
                 first \in {r \in rows : \A q \in rows :
                                ~Later(q.updated_at, r.updated_at)} }

\* ORDER BY updated_at: every arrangement of rows in ascending updated_at;
\* rows of equal updated_at come in any order
RECURSIVE OrderedBy(_)
OrderedBy(rows) ==
    IF rows = {} THEN {<<>>}
    ELSE UNION { { <<first>> \o rest : rest \in OrderedBy(rows \ {first}) } :
                 first \in {r \in rows : \A q \in rows :
                                ~Later(r.updated_at, q.updated_at)} }

Query(source, last_synced) == OrderedBy(Selected(source, last_synced))

\* lines 62-69
CustomerUpsert(row) ==
    Upsert("customers",
           [customer_id |-> row.customer_id, first_name |-> row.first_name,
            last_name |-> row.last_name, email |-> row.email,
            updated_at |-> dt2str(row.updated_at)])

\* no call has ended since the source table was last written
NoCall == [end |-> "none", fetched |-> FALSE, result |-> <<>>, in |-> {}]

KeyInit ==
    /\ k_source = Customers
    /\ k_writes = 0
    /\ k_persist \in KeyStates
    /\ k_state = {}
    /\ k_in = {}
    /\ k_pc = "idle"
    /\ k_result = <<>>
    /\ k_i = 0
    /\ k_last = <<>>
    /\ k_ops = <<>>
    /\ k_syncs = 0
    /\ k_prev = NoCall

\* a customer is modified in the source; the rows of a running call were
\* all fetched by its first step, so a write during the call is a write
\* after it for everything the call yields
KeyWrite(i, t) ==
    /\ k_pc \in {"idle", "done", "abandoned"}
    /\ k_writes < MaxWrites
    /\ k_source[i].updated_at # t
    /\ k_source' = [k_source EXCEPT ![i].updated_at = t]
    /\ k_writes' = k_writes + 1
    /\ k_prev' = NoCall
    /\ UNCHANGED <<k_persist, k_state, k_in, k_pc, k_result, k_i, k_last,
                   k_ops, k_syncs>>

\* the host calls update with the state it keeps
KeyStart ==
    /\ k_pc \in {"idle", "done", "abandoned"}
    /\ k_syncs < MaxKSyncs
    /\ k_syncs' = k_syncs + 1
    /\ k_state' = k_persist
    /\ k_in' = k_persist
    /\ k_pc' = "created"
    /\ k_result' = <<>>
    /\ k_i' = 0
    /\ k_last' = <<>>
    /\ k_ops' = <<>>
    /\ UNCHANGED <<k_source, k_writes, k_persist, k_prev>>

\* lines 71-72: the dict handed in gets the key, and is the checkpoint
KeyYieldCheckpoint(last_synced) ==
    LET state == Put(k_state, "last_synced", last_synced)
        operation == Checkpoint(state)
    IN /\ k_state' = state
       /\ k_ops' = Append(k_ops, operation)
       /\ k_persist' = HostState(k_persist, operation)
       /\ k_pc' = "checkpoint"
       /\ k_i' = k_i

\* the key is assigned in the dict after every row
KeyYieldUpsert_Assigning(result) ==
    LET operation == CustomerUpsert(result[k_i + 1])
    IN /\ k_ops' = Append(k_ops, operation)
       /\ k_persist' = HostState(k_persist, operation)
       /\ k_pc' = "upsert"
       /\ k_i' = k_i + 1
       /\ k_state' = Put(k_state, "last_synced",
                         dt2str(result[k_i + 1].updated_at))

\* lines 62-69: the row after the k_i rows already yielded
KeyYieldUpsert(result) ==
    LET operation == CustomerUpsert(result[k_i + 1])
    IN /\ k_ops' = Append(k_ops, operation)
       /\ k_persist' = HostState(k_persist, operation)
       /\ k_pc' = "upsert"
       /\ k_i' = k_i + 1
       /\ k_state' = k_state

\* first operation asked for: lines 52-59, then the loop up to its first
\* yield, or lines 71-72 when no row was fetched
KeyFetch ==
    /\ k_pc = "created"
    /\ LET last_synced == IF Has(k_state, "last_synced")
                          THEN Get(k_state, "last_synced")
                          ELSE DefaultLastSynced
       IN \E result \in Query(k_source, last_synced) :
            /\ k_result' = result
            /\ k_last' = last_synced
            /\ IF Len(result) > 0 THEN KeyYieldUpsert(result)
               ELSE KeyYieldCheckpoint(last_synced)
    /\ UNCHANGED <<k_source, k_writes, k_in, k_syncs, k_prev>>

\* a further operation asked for after an upsert: line 70, then the next
\* row of the loop, or lines 71-72 after the last one
KeyLoop ==
    /\ k_pc = "upsert"
    /\ LET last_synced == dt2str(k_result[k_i].updated_at)
       IN /\ k_last' = last_synced
          /\ IF k_i < Len(k_result) THEN KeyYieldUpsert(k_result)
             ELSE KeyYieldCheckpoint(last_synced)
    /\ UNCHANGED <<k_source, k_writes, k_in, k_result, k_syncs, k_prev>>

\* the operation asked for after the checkpoint: the generator returns
KeyReturn ==
    /\ k_pc = "checkpoint"
    /\ k_pc' = "done"
    /\ k_prev' = [end |-> "completed", fetched |-> TRUE, result |-> k_result,
                  in |-> k_in]
    /\ UNCHANGED <<k_source, k_writes, k_persist, k_state, k_in, k_result,
                   k_i, k_last, k_ops, k_syncs>>

\* the host stops asking before the checkpoint was yielded
KeyAbandon ==
    /\ k_pc \in {"created", "upsert"}
    /\ k_pc' = "abandoned"
    /\ k_prev' = [end |-> "abandoned", fetched |-> (k_pc # "created"),
                  result |-> k_result, in |-> k_in]
    /\ UNCHANGED <<k_source, k_writes, k_persist, k_state, k_in, k_result,
                   k_i, k_last, k_ops, k_syncs>>

KeyNext ==
    \/ \E i \in 1..Len(Customers), t \in WriteTimes : KeyWrite(i, t)
    \/ KeyStart
    \/ KeyFetch
    \/ KeyLoop
    \/ KeyReturn
    \/ KeyAbandon

(***************************************************************************)
(* examples/records_with_no_created_at_timestamp/connector.py              *)
(***************************************************************************)
\* the key without updated_at
user_primary_key_IdOnly == <<"id">>

user_primary_key == <<"id", "updated_at">>

user_schema ==
    [table |-> "user", primary_key |-> user_primary_key,
     columns |-> {<<"id", "INT">>, <<"first_name", "STRING">>,
                  <<"last_name", "STRING">>,
                  <<"updated_at", "UTC_DATETIME">>}]

row_1 ==
    [id |-> 123, first_name |-> "John", last_name |-> "Doe",
     designation |-> "Manager", updated_at |-> "2007-12-03T10:15:30Z"]

row_2 ==
    [id |-> 456, first_name |-> "Jane", last_name |-> "Dalton",
     designation |-> "VP", updated_at |-> "2008-11-12T00:00:20Z"]

\* the record the file describes as the later version of row_1
row_1_new ==
    [id |-> 123, first_name |-> "John", last_name |-> "Doe",
     designation |-> "Senior Manager", updated_at |-> "2008-01-04T23:44:21Z"]

\* the table the file documents as the result of the first sync
ResultingTable ==
    { [id |-> 123, first_name |-> "John", last_name |-> "Doe",
       designation |-> "Manager", updated_at |-> "2007-12-03T10:15:30Z"],
      [id |-> 456, first_name |-> "Jane", last_name |-> "Dalton",
       designation |-> "VP", updated_at |-> "2007-12-03T10:15:30Z"] }

\* what a record of the source can become between two syncs
Designations == {"Senior Manager", "VP"}
UpdateTimes == {"2008-01-04T23:44:21Z", "2008-11-12T00:00:20Z"}

MaxUSyncs == 3

\* the rows of table that have the primary key of row
SameKey(primary_key, a, b) ==
    \A n \in 1..Len(primary_key) : a[primary_key[n]] = b[primary_key[n]]

\* the destination applies an upsert: the row replaces the row of its
\* primary key, or is added when there is none
ApplyUpsert(table, primary_key, row) ==
    {r \in table : ~SameKey(primary_key, r, row)} \cup {row}

UserInit ==
    /\ u_source = <<row_1, row_2>>
    /\ u_pc = "idle"
    /\ u_ops = <<>>
    /\ u_dest = {}
    /\ u_syncs = 0

\* a record is modified in the source after a sync, as the file describes
UserSourceUpdate(n, designation, updated_at) ==
    /\ u_pc = "done"
    /\ u_source[n].updated_at # updated_at
    /\ u_source' = [u_source EXCEPT ![n].designation = designation,
                                    ![n].updated_at = updated_at]
    /\ UNCHANGED <<u_pc, u_ops, u_dest, u_syncs>>

\* the host calls update
UserStart ==
    /\ u_pc \in {"idle", "done"}
    /\ u_syncs < MaxUSyncs
    /\ u_pc' = "created"
    /\ u_ops' = <<>>
    /\ UNCHANGED <<u_source, u_dest, u_syncs>>

\* an operation asked for: lines 54 and 55 yield the two records; the
\* destination applies each under the primary key of schema()
UserUpsert ==
    /\ u_pc \in {"created", "upsert1"}
    /\ LET row == IF u_pc = "created" THEN u_source[1] ELSE u_source[2]
           operation == Upsert("user", row)
       IN /\ u_ops' = Append(u_ops, operation)
          /\ u_dest' = ApplyUpsert(u_dest, user_schema.primary_key, row)
    /\ u_pc' = IF u_pc = "created" THEN "upsert1" ELSE "upsert2"
    /\ UNCHANGED <<u_source, u_syncs>>

\* the operation asked for after the second upsert: the generator returns
UserReturn ==
    /\ u_pc = "upsert2"
    /\ u_pc' = "done"
    /\ u_syncs' = u_syncs + 1
    /\ UNCHANGED <<u_source, u_ops, u_dest>>

UserNext ==
    \/ \E n \in 1..2, designation \in Designations, updated_at \in UpdateTimes :
         UserSourceUpdate(n, designation, updated_at)
    \/ UserStart
    \/ UserUpsert
    \/ UserReturn

(***************************************************************************)
(* Specifications: the examples are separate programs; each specification  *)
(* runs one of them and leaves the others as constructed                   *)
(***************************************************************************)
TsOff ==
    /\ ts_pc = "idle" /\ ts_arg = <<>> /\ ts_res = [ok |-> FALSE, exc |-> None]
    /\ m_pc = "start" /\ m_ops = <<>> /\ m_err = None

LocalOff ==
    /\ l_state = {} /\ l_in = {} /\ l_pc = "idle" /\ l_ops = <<>>
    /\ l_err = None /\ l_hist = <<>> /\ l_source = SOURCE_DATA

KeyOff ==
    /\ k_source = Customers /\ k_writes = 0 /\ k_persist = {} /\ k_state = {}
    /\ k_in = {} /\ k_pc = "idle" /\ k_result = <<>> /\ k_i = 0
    /\ k_last = <<>> /\ k_ops = <<>> /\ k_syncs = 0 /\ k_prev = NoCall

UserOff ==
    /\ u_source = <<row_1, row_2>> /\ u_pc = "idle" /\ u_ops = <<>>
    /\ u_dest = {} /\ u_syncs = 0

InitTs == TsInit /\ LocalOff /\ KeyOff /\ UserOff
NextTs == TsNext /\ UNCHANGED <<l_vars, k_vars, u_vars>>
SpecTs == InitTs /\ [][NextTs]_vars

InitLocal == TsOff /\ LocalInit /\ KeyOff /\ UserOff
NextLocal == LocalNext /\ UNCHANGED <<ts_vars, k_vars, u_vars>>
SpecLocal == InitLocal /\ [][NextLocal]_vars

InitKey == TsOff /\ LocalOff /\ KeyInit /\ UserOff
NextKey == KeyNext /\ UNCHANGED <<ts_vars, l_vars, u_vars>>
SpecKey == InitKey /\ [][NextKey]_vars

InitUser == TsOff /\ LocalOff /\ KeyOff /\ UserInit
NextUser == UserNext /\ UNCHANGED <<ts_vars, l_vars, k_vars>>
SpecUser == InitUser /\ [][NextUser]_vars

(***************************************************************************)
(* Properties                                                              *)
(***************************************************************************)
Parses(text, i) == strptime(text, TIMESTAMP_FORMATS[i]).ok
FormatNumbers == 1..Len(TIMESTAMP_FORMATS)

\* the numbers written in a text: the values of its maximal runs of digits
RECURSIVE NumbersIn(_, _, _)
NumbersIn(text, pos, run) ==
    IF pos > Len(text)
    THEN (IF run = <<>> THEN <<>> ELSE <<ToInt(run)>>)
    ELSE IF text[pos] \in Digits
         THEN NumbersIn(text, pos + 1, Append(run, text[pos]))
         ELSE (IF run = <<>> THEN <<>> ELSE <<ToInt(run)>>)
                  \o NumbersIn(text, pos + 1, <<>>)

\* text has the shape YYYY-MM-DDTHH:MM:SS
IsoShape(text) ==
    /\ Len(text) = 19
    /\ \A p \in {5, 8} : text[p] = "-"
    /\ text[11] = "T"
    /\ \A p \in {14, 17} : text[p] = ":"
    /\ \A p \in (1..19) \ {5, 8, 11, 14, 17} : text[p] \in Digits

\* C1: whenever the string passed to serialize parses under the slash or
\* the dash format, serialize returns a string of the shape
\* YYYY-MM-DDTHH:MM:SS whose six numbers are the six numbers written in the
\* input, and the format used is the first of the list that parses it; the
\* two strings of the scenarios give the outputs the scenarios name.
C1_SerializeKeepsDateAndTime ==
    /\ (ts_pc # "idle" /\ \E i \in FormatNumbers : Parses(ts_arg, i)) =>
          /\ ts_pc = "returned"
          /\ ts_res.ok
          /\ IsoShape(ts_res.value)
          /\ NumbersIn(ts_res.value, 1, <<>>) = NumbersIn(ts_arg, 1, <<>>)
          /\ Parses(ts_arg, ts_res.fmt)
          /\ \A i \in FormatNumbers : i < ts_res.fmt => ~Parses(ts_arg, i)
    /\ (ts_pc # "idle" /\ ts_arg = Slash_2024_09_24_14_30_45) =>
          (ts_res.ok /\ ts_res.value = Iso_2024_09_24_14_30_45)
    /\ (ts_pc # "idle" /\ ts_arg = Dash_2024_09_24_10_30_45) =>
          (ts_res.ok /\ ts_res.value = Iso_2024_09_24_10_30_45)

\* serialize has returned for a dash-format input whose month and second
\* are written with one digit
C1_Witness ==
    /\ ts_pc = "returned"
    /\ ts_res.fmt = 2
    /\ Len(ts_arg) = 17

\* C2: whenever the string passed to serialize parses under neither format,
\* serialize raises the "format not recognized" ValueError carrying that
\* string and returns nothing; the string with month 13 is such a string.
C2_UnparsedRaisesNotRecognized ==
    /\ (ts_pc # "idle" /\ \A i \in FormatNumbers : ~Parses(ts_arg, i)) =>
          /\ ts_pc = "raised"
          /\ ~ts_res.ok
          /\ "value" \notin DOMAIN ts_res
          /\ ts_res.exc.type = "ValueError"
          /\ ts_res.exc.msg = "Timestamp format not recognized: "
          /\ ts_res.exc.arg = ts_arg
    /\ (ts_pc # "idle" /\ ts_arg = Dash_2024_13_01_10_30_45) => ts_pc = "raised"

\* serialize has raised for the string with month 13
C2_Witness ==
    /\ ts_pc = "raised"
    /\ ts_arg = Dash_2024_13_01_10_30_45

\* C7: update of multiple_code_files never raises, and when it has
\* returned it has yielded exactly two upserts on table event, the first
\* with the ISO-8601 form of the timestamp of Event1 and the second with
\* that of Event2.
C7_UpdateUpsertsBothEvents ==
    /\ m_pc # "raised"
    /\ m_pc = "done" =>
          m_ops = << Upsert("event", Iso_2024_09_24_14_30_45),
                     Upsert("event", Iso_2024_09_24_10_30_45) >>

UpsertsOf(ops) == SelectSeq(ops, LAMBDA o : o.op = "upsert")
CheckpointsOf(ops) == SelectSeq(ops, LAMBDA o : o.op = "checkpoint")
SourceLength == Len(SOURCE_DATA)

\* C3: a finished call of the local update that was handed a cursor n with
\* 0 <= n < L has yielded exactly the upsert of row n to hello_world and
\* then the checkpoint of {cursor: n+1}.
C3_OneRowThenCheckpoint ==
    (l_pc = "done" /\ Has(l_in, "cursor")
        /\ Get(l_in, "cursor") \in 0..(SourceLength - 1)) =>
       l_ops = << Upsert("hello_world", SOURCE_DATA[Get(l_in, "cursor") + 1]),
                  Checkpoint({<<"cursor", Get(l_in, "cursor") + 1>>}) >>

\* a call handed the cursor of the last row has finished
C3_Witness ==
    /\ l_pc = "done"
    /\ Has(l_in, "cursor")
    /\ Get(l_in, "cursor") = SourceLength - 1
    /\ Len(l_ops) = 2

\* C4: when the first call was handed the empty state, the k-th finished
\* call, for k up to L, was handed the state the call before it
\* checkpointed, raised nothing and upserted exactly row k-1.
C4_SyncsWalkTheSource ==
    (Len(l_hist) >= 1 /\ l_hist[1].in = {}) =>
       \A k \in 1..Len(l_hist) : k <= SourceLength =>
          /\ l_hist[k].err = None
          /\ UpsertsOf(l_hist[k].ops)
                = <<Upsert("hello_world", SOURCE_DATA[k])>>
          /\ k > 1 => l_hist[k].in
                = CheckpointsOf(l_hist[k - 1].ops)[1].state

\* L calls have finished since the empty state
C4_Witness ==
    /\ Len(l_hist) = SourceLength
    /\ l_hist[1].in = {}
    /\ l_pc = "done"

\* C5: a call of the local update handed a cursor >= L raises IndexError
\* when its first operation is asked for: it yields no operation and the
\* state the host keeps is the state the call was handed.
C5_PastTheEndRaises ==
    (l_pc \notin {"idle", "created"} /\ LocalCursor(l_in) >= SourceLength) =>
       /\ l_pc = "raised"
       /\ l_err = IndexError
       /\ l_ops = <<>>
       /\ l_state = l_in

\* the call after the one that upserted the last row has raised
C5_Witness ==
    /\ l_pc = "raised"
    /\ LocalCursor(l_in) = SourceLength
    /\ Len(l_hist) = SourceLength + 1
    /\ l_hist[1].in = {}

LastSynced_2024_03_16 == <<"2", "0", "2", "4", "-", "0", "3", "-", "1", "6", "T", "1", "6", ":", "4", "0", ":", "2", "9", "Z">>

CustomerIds(ops) == [n \in 1..Len(UpsertsOf(ops)) |-> UpsertsOf(ops)[n].data.customer_id]

\* C6: a finished call of the key-based update that was handed a state
\* without last_synced, against the documented source table, has yielded the
\* upserts of customers 2, 4 and 5 in that order and then the checkpoint of
\* last_synced = 2024-03-16T16:40:29Z.
C6_FirstSyncOfDocumentedTable ==
    (k_pc = "done" /\ ~Has(k_in, "last_synced") /\ k_writes = 0) =>
       /\ CustomerIds(k_ops) = <<2, 4, 5>>
       /\ Len(k_ops) = 4
       /\ \A n \in 1..3 : k_ops[n] = CustomerUpsert(Customers[CustomerIds(k_ops)[n]])
       /\ k_ops[4].op = "checkpoint"
       /\ Get(k_ops[4].state, "last_synced") = LastSynced_2024_03_16
       /\ Get(k_persist, "last_synced") = LastSynced_2024_03_16

\* a call handed the empty state has finished against the documented table
C6_Witness ==
    /\ k_pc = "done"
    /\ k_in = {}
    /\ k_writes = 0
    /\ k_source = Customers

IncomingLastSynced(state) ==
    IF Has(state, "last_synced") THEN Get(state, "last_synced")
    ELSE DefaultLastSynced

\* C10: a finished call of the key-based update has yielded upserts whose
\* updated_at never decreases, then one checkpoint, which is its last
\* operation; the last_synced of the checkpoint is the updated_at of the
\* last upsert, or the last_synced handed in (the default when absent) when
\* there is no upsert.
C10_UpsertsInOrderThenCheckpoint ==
    k_pc = "done" =>
       LET n == Len(k_ops) IN
       /\ n >= 1
       /\ k_ops[n].op = "checkpoint"
       /\ \A j \in 1..(n - 1) : k_ops[j].op = "upsert"
       /\ \A j \in 1..(n - 2) :
             ~Later(CastTimestamp(k_ops[j].data.updated_at),
                    CastTimestamp(k_ops[j + 1].data.updated_at))
       /\ Get(k_ops[n].state, "last_synced")
             = IF n > 1 THEN k_ops[n - 1].data.updated_at
               ELSE IncomingLastSynced(k_in)

\* a call has finished after upserting rows of different updated_at, and
\* another after upserting none
C10_Witness ==
    /\ k_pc = "done"
    /\ \/ /\ Len(k_ops) >= 3
          /\ k_ops[1].data.updated_at # k_ops[2].data.updated_at
          /\ k_writes > 0
       \/ /\ Len(k_ops) = 1
          /\ Has(k_in, "last_synced")

\* C8: the primary key of table user is (id, updated_at); an upsert of a
\* record whose id is in the destination under other values of updated_at
\* only adds the record as one more row, every row that was there stays as
\* it was; an upsert of a record whose (id, updated_at) is in the
\* destination adds no row.
C8_Step ==
    Len(u_ops') > Len(u_ops) =>
       LET row == u_ops'[Len(u_ops')].data
           same_id == {r \in u_dest : r.id = row.id}
           same_key == {r \in same_id : r.updated_at = row.updated_at}
       IN /\ user_schema.primary_key = <<"id", "updated_at">>
          /\ (same_id # {} /\ same_key = {}) =>
                /\ u_dest' = u_dest \cup {row}
                /\ Cardinality(u_dest') = Cardinality(u_dest) + 1
          /\ same_key # {} => Cardinality(u_dest') = Cardinality(u_dest)
          /\ \A r \in same_id \ same_key : r \in u_dest'

C8_CompositeKeyKeepsVersions == [][C8_Step]_vars

\* the destination holds both versions of record 123 after the later
\* version was delivered and the unchanged record 456 was delivered again
C8_Witness ==
    /\ u_pc = "done"
    /\ u_syncs >= 2
    /\ row_1 \in u_dest
    /\ row_1_new \in u_dest
    /\ Cardinality({r \in u_dest : r.id = 456}) = 1

\* C9: after the first sync the destination table user is the documented
\* resulting table: 123 John Doe Manager and 456 Jane Dalton VP, both with
\* updated_at 2007-12-03T10:15:30Z.
C9_FirstSyncGivesResultingTable ==
    (u_syncs = 1 /\ u_pc = "done") => u_dest = ResultingTable

\* the last_synced a state holds, as a timestamp
StateTime(state) == CastTimestamp(IncomingLastSynced(state))

\* the running call was started right after a call that returned, with no
\* write to the source table in between
AfterCompletedSync == k_prev.end = "completed"

\* C11 (first two parts): the last_synced the host keeps never decreases,
\* and a row that update yields has an updated_at later than the last_synced
\* the call was handed.
C11_MonotoneAndStrict_Step ==
    /\ Has(k_persist, "last_synced") =>
          /\ Has(k_persist', "last_synced")
          /\ ~Later(StateTime(k_persist), StateTime(k_persist'))
    /\ (Len(k_ops') > Len(k_ops) /\ k_ops'[Len(k_ops')].op = "upsert") =>
          Later(k_result'[k_i'].updated_at, StateTime(k_in'))

C11_MonotoneAndStrict == [][C11_MonotoneAndStrict_Step]_vars

\* C11: the last_synced the host keeps never decreases; a row whose
\* updated_at is not later than the last_synced handed in is never yielded;
\* and a call started right after a call that returned, over an unchanged
\* source, yields no upsert and checkpoints the last_synced it was handed.
C11_Step ==
    /\ C11_MonotoneAndStrict_Step
    /\ (Len(k_ops') > Len(k_ops) /\ AfterCompletedSync) =>
          /\ k_ops'[Len(k_ops')].op = "checkpoint"
          /\ Get(k_ops'[Len(k_ops')].state, "last_synced")
                = IncomingLastSynced(k_in)

C11_IncrementalSyncs == [][C11_Step]_vars

RowsOf(result) == {result[n] : n \in 1..Len(result)}

\* C12: until update has yielded its checkpoint, the dict it was handed is
\* as it was handed, no checkpoint has been yielded and the host keeps the
\* state it handed in; after the host stopped asking, the state it keeps is
\* still that state; and the call started next over the same source is
\* handed that state, fetches the rows the abandoned call had fetched and
\* yields them again, beginning with a row of the earliest updated_at.
C12_NoCheckpointBeforeLastUpsert ==
    /\ k_pc \in {"created", "upsert", "abandoned"} =>
          /\ k_state = k_in
          /\ k_persist = k_in
          /\ CheckpointsOf(k_ops) = <<>>
    /\ (k_pc \in {"upsert", "checkpoint"} /\ k_prev.end = "abandoned"
           /\ k_prev.fetched) =>
          /\ k_in = k_prev.in
          /\ RowsOf(k_result) = RowsOf(k_prev.result)
          /\ k_ops[1] = CustomerUpsert(k_result[1])
          /\ \A row \in RowsOf(k_prev.result) :
                ~Later(k_result[1].updated_at, row.updated_at)
          /\ k_pc = "checkpoint" =>
                {op.data : op \in RowsOf(UpsertsOf(k_ops))}
                   = {CustomerUpsert(row).data : row \in RowsOf(k_prev.result)}

\* the call after one that was abandoned between two upserts has yielded
\* all its rows and its checkpoint
C12_Witness ==
    /\ k_pc = "checkpoint"
    /\ k_prev.end = "abandoned"
    /\ k_prev.fetched
    /\ Len(k_prev.result) >= 2
    /\ Len(k_ops) = Len(k_prev.result) + 1

KeysOf(dict) == {item[1] : item \in dict}

\* C13: no step of the local update changes the dict it was handed or
\* SOURCE_DATA, and the state of the checkpoint it yields has the key
\* cursor and no other key, whatever keys the dict handed in has.
C13_Step ==
    /\ l_source' = l_source
    /\ l_pc \in {"created", "upsert", "checkpoint"} => l_in' = l_in
    /\ (Len(l_ops') > Len(l_ops) /\ l_ops'[Len(l_ops')].op = "checkpoint") =>
          /\ KeysOf(l_ops'[Len(l_ops')].state) = {"cursor"}
          /\ KeysOf(l_state') = {"cursor"}

C13_UpdateLeavesItsInputs == [][C13_Step]_vars

\* update has yielded its checkpoint in a call that was handed a cursor
\* next to another key; the dict handed in still has that key, the state
\* checkpointed does not
C13_Witness ==
    /\ l_pc = "checkpoint"
    /\ KeysOf(l_in) = {"cursor", "page"}
    /\ ~Has(l_state, "page")
    /\ l_source = SOURCE_DATA

====
